---- MODULE Spec2Model ----
(***************************************************************************)
(* TigerTrust: the risk-score engine (rse-server) and the loan decision    *)
(* backend (loan-decision-backend).  One request is followed through its   *)
(* handler: a direct call of computeTigerScore followed by getTier, the    *)
(* POST /api/loan/apply pipeline, GET /api/loan/eligibility, or            *)
(* POST /risk/recalculate with its three reads of the chain.  Further      *)
(* specifications follow a caller through two requests in a row, two calls *)
(* interleaved at their awaits, and a visitor through the onboarding page  *)
(* of the web app.                                                         *)
(*                                                                         *)
(* Money: loan accounts hold base units (1 USDC = 1000000 base units); the *)
(* handlers divide by 1000000 and compare ratios in floating point.  The   *)
(* model keeps the base units as integers and compares the same ratios     *)
(* exactly; maxDtiRatio is held in hundredths (0.2 is 20).                 *)
(***************************************************************************)
EXTENDS Integers, Sequences, FiniteSets, TLC

VARIABLES
    op,          \* which entry point the request came in by
    pc,          \* position of the handler
    LOAN_TIERS,  \* the tier table config.js exports, fixed at startup
    f,           \* WalletFeatures handed to computeTigerScore
    score,       \* {} before computeTigerScore returns, then {its result}
    tierLabel,   \* {} before getTier returns, then {its label}
    req,         \* request body / params
    chain,       \* what the upstream reads returned to this request
    loc,         \* the handler's local constants, as far as assigned
    gates,       \* the gates the handler has evaluated, in order
    res,         \* the responses sent, in order
    prev,        \* the responses to the caller's earlier request, <<>> if none
    other,       \* a second request in flight, waiting at an await: its own
                 \* op, pc, f, score, tierLabel, req, chain, loc, gates, res
    ui           \* the onboarding page: its React state and the route shown

vars ==
    <<op, pc, LOAN_TIERS, f, score, tierLabel, req, chain, loc, gates, res, prev,
      other, ui>>

\* ------------------------------------------------------------------ bounds

MaxRepayments == 12
MaxDefaults == 3
MaxLoans == 2
MaxSigs == 32
MaxChecks == 8

\* --------------------------------------------------------- score engine

WalletAgeValues == {180, 181}
TxCountValues == {100, 101}
NftCountValues == {0, 1}
ActivityValues == {{}, {0}, {40}, {41}, {100}}

WalletFeatures ==
    [ humanVerified : BOOLEAN,
      walletAgeDays : WalletAgeValues,
      txCount : TxCountValues,
      nftCount : NftCountValues,
      successfulRepayments : 0..MaxRepayments,
      defaults : 0..MaxDefaults,
      hasVC : BOOLEAN,
      activityRegularityScore : ActivityValues ]

\* scoring.ts: the activity bonus is added after the two clamping statements.
computeTigerScore(ft) ==
    LET s0 == 300
        s1 == IF ft.humanVerified THEN s0 + 80 ELSE s0
        s2 == IF ft.walletAgeDays > 180 THEN s1 + 40 ELSE s1
        s3 == IF ft.txCount > 100 THEN s2 + 40 ELSE s2
        s4 == IF ft.nftCount > 0 THEN s3 + 20 ELSE s3
        s5 == s4 + ft.successfulRepayments * 60
        s6 == s5 - ft.defaults * 120
        s7 == IF ft.hasVC THEN s6 + 30 ELSE s6
        s8 == IF s7 < 0 THEN 0 ELSE s7
        s9 == IF s8 > 1000 THEN 1000 ELSE s8
    IN  IF \E a \in ft.activityRegularityScore : a # 0 /\ a > 40
        THEN s9 + 40
        ELSE s9

getTier(s) ==
    IF s >= 850 THEN "Platinum"
    ELSE IF s >= 650 THEN "Gold"
    ELSE IF s >= 400 THEN "Silver"
    ELSE "Bronze"

\* ------------------------------------------------------------ configuration

DefaultTiers ==
    << [level |-> 0, minTigerScore |-> 0, maxLoanLimit |-> 50,
        baseInterestRate |-> 15, maxDtiRatio |-> 20, loanApplicationVelocityLimit |-> 3],
       [level |-> 1, minTigerScore |-> 200, maxLoanLimit |-> 150,
        baseInterestRate |-> 10, maxDtiRatio |-> 30, loanApplicationVelocityLimit |-> 2],
       [level |-> 2, minTigerScore |-> 400, maxLoanLimit |-> 500,
        baseInterestRate |-> 7, maxDtiRatio |-> 40, loanApplicationVelocityLimit |-> 1],
       [level |-> 3, minTigerScore |-> 600, maxLoanLimit |-> 1000,
        baseInterestRate |-> 5, maxDtiRatio |-> 50, loanApplicationVelocityLimit |-> 1] >>

\* The same table with an entry threshold: every minTigerScore raised by 100.
RaisedTiers ==
    [i \in 1..Len(DefaultTiers) |->
        [DefaultTiers[i] EXCEPT !.minTigerScore = @ + 100]]

TierTables == {DefaultTiers, RaisedTiers}

MIN_REQUIRED_INCOME_PROOF == 100

REPAYMENT_TERMS ==
    [k \in {"7_days", "15_days", "30_days", "60_days", "90_days"} |->
        CASE k = "7_days" -> 7
          [] k = "15_days" -> 15
          [] k = "30_days" -> 30
          [] k = "60_days" -> 60
          [] k = "90_days" -> 90]

\* Keys a plain object inherits from Object.prototype; one stands for all.
InheritedKeys == {"constructor"}

\* REPAYMENT_TERMS[repaymentTerm]: a day count, an inherited function, or
\* undefined.
TermLookup(term) ==
    IF term \in DOMAIN REPAYMENT_TERMS
    THEN [kind |-> "number", value |-> REPAYMENT_TERMS[term]]
    ELSE IF term \in InheritedKeys
    THEN [kind |-> "function", value |-> 0]
    ELSE [kind |-> "undefined", value |-> 0]

\* ----------------------------------------------------------------- inputs

\* "" is an absent field, "not-base58" a string PublicKey refuses.
WalletInputs == {"", "not-base58", "wallet"}

\* loanAmount as JSON delivers it: absent, a string, or a number.
LoanAmountInputs ==
    {[kind |-> "undefined", value |-> 0], [kind |-> "string", value |-> 100]}
    \cup {[kind |-> "number", value |-> v] : v \in {-5, 0, 3, 100, 100000}}

TermInputs == {"", "45_days", "constructor", "7_days", "30_days"}

\* Scores around every threshold the handlers compare against; tigerScore is a
\* u64, and 20000 is past the point where getVerifiedIncome caps the income.
ScoreSamples ==
    {0, 5, 12, 13, 99, 100, 199, 200, 250, 399, 400, 599, 600, 1000, 20000}

\* A stored profile; humanVerifiedVcHash is TRUE when the field is truthy.
Profiles == [tigerScore : ScoreSamples, humanVerifiedVcHash : BOOLEAN]

\* What getAccountInfo + borsh.deserialize yield for one loan PDA.
\* status: 0 = active, 1 = repaid, 2 = defaulted; amounts in base units.
LoanAccountStates ==
    { [kind |-> "loan", status |-> 0, outstandingAmount |-> 40000000],
      [kind |-> "loan", status |-> 0, outstandingAmount |-> 160000000],
      [kind |-> "loan", status |-> 0, outstandingAmount |-> 160000001],
      [kind |-> "loan", status |-> 0, outstandingAmount |-> 0],
      [kind |-> "loan", status |-> 1, outstandingAmount |-> 40000000],
      [kind |-> "loan", status |-> 2, outstandingAmount |-> 160000000],
      [kind |-> "undecodable", status |-> 0, outstandingAmount |-> 0] }

LoanAccountLists == UNION {[1..n -> LoanAccountStates] : n \in 0..MaxLoans}

\* ---------------------------------------------------------------- helpers

Min2(a, b) == IF a <= b THEN a ELSE b

Min3(a, b, c) == Min2(a, Min2(b, c))

\* Math.round of the non-negative rational n / d.
RoundDiv(n, d) == (2 * n + d) \div (2 * d)

RECURSIVE SumAmounts(_)
SumAmounts(loans) ==
    IF loans = <<>> THEN 0
    ELSE Head(loans).outstandingAmount + SumAmounts(Tail(loans))

\* The chain answers a caller's second request as it answered the first: the
\* account data does not change in between.
SameProfileRead(outcome, p) ==
    chain.profileRead # "pending"
        => (outcome = chain.profileRead /\ (outcome = "found" => chain.profile = {p}))

SameLoansRead(outcome, accounts) ==
    chain.loansRead # "pending"
        => (outcome = chain.loansRead /\ accounts = chain.accounts)

\* loanProgram.js getUserProfile: a read that throws is caught and yields null.
getUserProfile(outcome, p) == IF outcome = "found" THEN {p} ELSE {}

\* Mutant: only repaid loans are left out.
getOutstandingLoansKeepingDefaulted(outcome, accounts) ==
    IF outcome # "ok" THEN <<>>
    ELSE SelectSeq(accounts,
            LAMBDA a : a.kind = "loan" /\ a.status # 1 /\ a.outstandingAmount > 0)

\* loanProgram.js getOutstandingLoans: a failure of the whole lookup yields [],
\* an account that cannot be deserialized is skipped.
getOutstandingLoans(outcome, accounts) ==
    IF outcome # "ok" THEN <<>>
    ELSE SelectSeq(accounts,
            LAMBDA a : a.kind = "loan" /\ a.status = 0 /\ a.outstandingAmount > 0)

\* Mutant: the income derived from the score whether or not a hash is present.
getVerifiedIncomeWithoutHashTest(profile) ==
    Min2(200 + (profile.tigerScore \div 2), 10000)

\* loanProgram.js getVerifiedIncome; Math.floor(s * 0.5) is s \div 2.
getVerifiedIncome(profile) ==
    IF ~profile.humanVerifiedVcHash THEN 0
    ELSE Min2(200 + (profile.tigerScore \div 2), 10000)

\* Mutant: the loop runs from the first tier up, first match wins.
ScanTiersFromLowest(tiers, s, i) ==
    LET hits == {j \in 1..i : s >= tiers[j].minTigerScore}
    IN  IF hits = {} THEN {}
        ELSE {tiers[CHOOSE j \in hits : \A k \in hits : j <= k]}

\* The tier loop of both handlers: from the last tier down, first match wins.
RECURSIVE ScanTiers(_, _, _)
ScanTiers(tiers, s, i) ==
    IF i < 1 THEN {}
    ELSE IF s >= tiers[i].minTigerScore THEN {tiers[i]}
    ELSE ScanTiers(tiers, s, i - 1)

\* POST /api/loan/apply: appropriateTier starts as null.
ApplyTier(tiers, s) == ScanTiers(tiers, s, Len(tiers))

\* Mutant: appropriateTier starts as the last tier of the table.
EligibilityTierStartsAtLast(tiers, s) ==
    LET found == ApplyTier(tiers, s)
    IN  IF found = {} THEN tiers[Len(tiers)] ELSE CHOOSE t \in found : TRUE

\* GET /api/loan/eligibility: appropriateTier starts as LOAN_TIERS[0].
EligibilityTier(tiers, s) ==
    LET found == ScanTiers(tiers, s, Len(tiers))
    IN  IF found = {} THEN tiers[1] ELSE CHOOSE t \in found : TRUE

\* Mutant: the comparison made with >= instead of >.
DtiExceedsOrEquals(debt, income, ratio) == debt \div 10000 >= ratio * income

\* currentDti > maxDtiRatio, with the debt in base units and the ratio in
\* hundredths: debt / 1000000 / income > ratio / 100.
DtiExceeds(debt, income, ratio) ==
    LET q == debt \div 10000
        r == debt % 10000
    IN  q > ratio * income \/ (q = ratio * income /\ r > 0)

\* (currentDti * 100).toFixed(1) and Math.round(currentDti * 1000) / 10, in
\* tenths of a percent.
DtiTenths(debt, income) == RoundDiv(debt, income * 1000)

\* Mutant: the income-based limit left out of the minimum.
MaxApprovedWithoutIncomeCap(tier, s, income) ==
    Min2(tier.maxLoanLimit, (s * 4) \div 5)

\* Step 5: Math.floor(s * 0.8) is (4 s) \div 5, Math.floor(i * 0.3) is (3 i) \div 10.
MaxApprovedLoanAmount(tier, s, income) ==
    Min3(tier.maxLoanLimit, (s * 4) \div 5, (income * 3) \div 10)

\* -------------------------------------------------------------- responses

\* Mutant: every rejection sent as a client error.
RejectionAsClientError(st, code, args) ==
    [status |-> 400, success |-> FALSE,
     rejectionReason |-> {[code |-> code, args |-> args]},
     proposedTerms |-> {}, eligibility |-> {}]

\* res.status(st).json({success: false, rejectionReason / error})
Rejection(st, code, args) ==
    [status |-> st, success |-> FALSE,
     rejectionReason |-> {[code |-> code, args |-> args]},
     proposedTerms |-> {}, eligibility |-> {}]

\* res.json({success: true, proposedTerms})
Approval(terms) ==
    [status |-> 200, success |-> TRUE, rejectionReason |-> {},
     proposedTerms |-> {terms}, eligibility |-> {}]

\* res.json({success: true, eligibility})
EligibilityReport(e) ==
    [status |-> 200, success |-> TRUE, rejectionReason |-> {},
     proposedTerms |-> {}, eligibility |-> {e}]

\* ------------------------------------------------------------ initial state

NoFeatures ==
    [humanVerified |-> FALSE, walletAgeDays |-> 180, txCount |-> 100,
     nftCount |-> 0, successfulRepayments |-> 0, defaults |-> 0,
     hasVC |-> FALSE, activityRegularityScore |-> {}]

NoRequest ==
    [walletAddress |-> "", loanAmount |-> [kind |-> "undefined", value |-> 0],
     repaymentTerm |-> ""]

NoReads ==
    [profileRead |-> "pending", profile |-> {}, loansRead |-> "pending",
     accounts |-> <<>>, recentApplications |-> {},
     txRead |-> "pending", txStats |-> {},
     tokenRead |-> "pending", tokenStats |-> {},
     activityRead |-> "pending", sigs |-> <<>>, now |-> 0]

NoLocals ==
    [userProfile |-> {}, appropriateTier |-> {}, verifiedMonthlyIncomeUSD |-> 0,
     outstandingLoans |-> <<>>, outstandingDebt |-> 0, maxApprovedLoanAmount |-> 0]

\* No second request in flight.
NoOther == [op |-> "none"]

\* The onboarding page not opened.
NoPage == [route |-> "/"]

Init ==
    /\ pc = "start"
    /\ other = NoOther
    /\ ui = NoPage
    /\ LOAN_TIERS \in TierTables
    /\ score = {}
    /\ tierLabel = {}
    /\ chain = NoReads
    /\ loc = NoLocals
    /\ gates = <<>>
    /\ res = <<>>
    /\ prev = <<>>
    /\ \/ /\ op = "score"
          /\ f \in WalletFeatures
          /\ req = NoRequest
          /\ LOAN_TIERS = DefaultTiers
       \/ /\ op = "apply"
          /\ f = NoFeatures
          /\ req \in [walletAddress : WalletInputs, loanAmount : LoanAmountInputs,
                      repaymentTerm : TermInputs]
       \/ /\ op = "eligibility"
          /\ f = NoFeatures
          /\ req \in [walletAddress : WalletInputs \ {""},
                      loanAmount : {NoRequest.loanAmount},
                      repaymentTerm : {""}]

\* --------------------------------------------------------- score engine

ComputeTigerScore ==
    /\ op = "score" /\ pc = "start"
    /\ score' = {computeTigerScore(f)}
    /\ pc' = "label"
    /\ UNCHANGED <<ui, other, prev, op, LOAN_TIERS, f, tierLabel, req, chain, loc, gates, res>>

GetTier ==
    /\ op = "score" /\ pc = "label"
    /\ tierLabel' = {getTier(s) : s \in score}
    /\ pc' = "done"
    /\ UNCHANGED <<ui, other, prev, op, LOAN_TIERS, f, score, req, chain, loc, gates, res>>

\* ------------------------------------------------- POST /api/loan/apply

Falsy(amount) ==
    amount.kind = "undefined" \/ (amount.kind = "number" /\ amount.value = 0)

\* The four validation checks, in the order the handler makes them; {} when
\* the input passes.
ValidationFailure(r) ==
    IF r.walletAddress = "" \/ Falsy(r.loanAmount) \/ r.repaymentTerm = ""
    THEN {"MissingFields"}
    ELSE IF r.loanAmount.kind # "number" \/ r.loanAmount.value <= 0
    THEN {"InvalidAmount"}
    ELSE IF TermLookup(r.repaymentTerm).kind = "undefined"
    THEN {"InvalidTerm"}
    ELSE IF r.walletAddress # "wallet"
    THEN {"InvalidWallet"}
    ELSE {}

\* Mutant: the response is sent a second time.
RespondTwice(r) ==
    /\ res' = Append(Append(res, r), r)
    /\ pc' = "done"

\* Send one response and end the handler.
Respond(r) ==
    /\ res' = Append(res, r)
    /\ pc' = "done"

ValidateInput ==
    /\ op = "apply" /\ pc = "start"
    /\ gates' = Append(gates, "validate")
    /\ IF ValidationFailure(req) # {}
       THEN Respond(Rejection(400, CHOOSE c \in ValidationFailure(req) : TRUE, <<>>))
       ELSE pc' = "profile" /\ res' = res
    /\ UNCHANGED <<ui, other, prev, op, LOAN_TIERS, f, score, tierLabel, req, chain, loc>>

\* Step 1: await getUserProfile(...)
FetchUserProfile ==
    /\ op = "apply" /\ pc = "profile"
    /\ gates' = Append(gates, "profile")
    /\ \E outcome \in {"error", "absent", "found"} :
       \E p \in IF outcome = "found" THEN Profiles ELSE {CHOOSE x \in Profiles : TRUE} :
          LET userProfile == getUserProfile(outcome, p)
          IN  /\ SameProfileRead(outcome, p)
              /\ chain' = [chain EXCEPT !.profileRead = outcome,
                                        !.profile = IF outcome = "found" THEN {p} ELSE {}]
              /\ loc' = [loc EXCEPT !.userProfile = userProfile]
              /\ IF userProfile = {}
                 THEN Respond(Rejection(200, "ProfileNotFound", <<>>))
                 ELSE pc' = "tier" /\ res' = res
    /\ UNCHANGED <<ui, other, prev, op, LOAN_TIERS, f, score, tierLabel, req>>

TheProfile == CHOOSE p \in loc.userProfile : TRUE

TheTier == CHOOSE t \in loc.appropriateTier : TRUE

\* Step 2: the tier loop and the null check after it.
ResolveTier ==
    /\ op = "apply" /\ pc = "tier"
    /\ gates' = Append(gates, "tier")
    /\ LET appropriateTier == ApplyTier(LOAN_TIERS, TheProfile.tigerScore)
       IN  /\ loc' = [loc EXCEPT !.appropriateTier = appropriateTier]
           /\ IF appropriateTier = {}
              THEN Respond(Rejection(200, "InsufficientScore",
                        <<TheProfile.tigerScore, LOAN_TIERS[1].minTigerScore>>))
              ELSE pc' = "income" /\ res' = res
    /\ UNCHANGED <<ui, other, prev, op, LOAN_TIERS, f, score, tierLabel, req, chain>>

\* Step 3, first half: getVerifiedIncome and the income floor.
IncomeGate ==
    /\ op = "apply" /\ pc = "income"
    /\ gates' = Append(gates, "income")
    /\ LET income == getVerifiedIncome(TheProfile)
       IN  /\ loc' = [loc EXCEPT !.verifiedMonthlyIncomeUSD = income]
           /\ IF income < MIN_REQUIRED_INCOME_PROOF
              THEN Respond(Rejection(200, "InsufficientIncome",
                        <<income, MIN_REQUIRED_INCOME_PROOF>>))
              ELSE pc' = "dti" /\ res' = res
    /\ UNCHANGED <<ui, other, prev, op, LOAN_TIERS, f, score, tierLabel, req, chain>>

\* Step 3, second half: await getOutstandingLoans(...), the debt sum, the DTI test.
DtiGate ==
    /\ op = "apply" /\ pc = "dti"
    /\ gates' = Append(gates, "dti")
    /\ \E outcome \in {"ok", "error"} :
       \E accounts \in IF outcome = "ok" THEN LoanAccountLists ELSE {<<>>} :
          LET outstandingLoans == getOutstandingLoans(outcome, accounts)
              debt == SumAmounts(outstandingLoans)
              income == loc.verifiedMonthlyIncomeUSD
          IN  /\ SameLoansRead(outcome, accounts)
              /\ chain' = [chain EXCEPT !.loansRead = outcome, !.accounts = accounts]
              /\ loc' = [loc EXCEPT !.outstandingLoans = outstandingLoans,
                                    !.outstandingDebt = debt]
              /\ IF DtiExceeds(debt, income, TheTier.maxDtiRatio)
                 THEN Respond(Rejection(200, "HighDebtToIncome",
                           <<DtiTenths(debt, income), TheTier.maxDtiRatio * 10>>))
                 ELSE pc' = "velocity" /\ res' = res
    /\ UNCHANGED <<ui, other, prev, op, LOAN_TIERS, f, score, tierLabel, req>>

\* Step 4: Math.floor(Math.random() * 3) stands in for the application count.
VelocityGate ==
    /\ op = "apply" /\ pc = "velocity"
    /\ gates' = Append(gates, "velocity")
    /\ \E recentApplications \in 0..2 :
          /\ chain' = [chain EXCEPT !.recentApplications = {recentApplications}]
          /\ IF recentApplications >= TheTier.loanApplicationVelocityLimit
             THEN Respond(Rejection(200, "VelocityExceeded", <<recentApplications>>))
             ELSE pc' = "amount" /\ res' = res
    /\ UNCHANGED <<ui, other, prev, op, LOAN_TIERS, f, score, tierLabel, req, loc>>

\* Mutant: step 6 never rejects.
AmountRejectedNever(loanAmount, maxApproved) == FALSE

\* Mutant: the floor applied whatever the amount asked for.
AmountRejectedWheneverLow(loanAmount, maxApproved) == maxApproved < 10

\* Step 6: the rejection sits inside the test loanAmount > maxApprovedLoanAmount.
AmountRejected(loanAmount, maxApproved) ==
    loanAmount > maxApproved /\ maxApproved < 10

\* Steps 5 and 6.
AmountResolution ==
    /\ op = "apply" /\ pc = "amount"
    /\ gates' = Append(gates, "amount")
    /\ LET maxApproved == MaxApprovedLoanAmount(TheTier, TheProfile.tigerScore,
                                                loc.verifiedMonthlyIncomeUSD)
       IN  /\ loc' = [loc EXCEPT !.maxApprovedLoanAmount = maxApproved]
           /\ IF AmountRejected(req.loanAmount.value, maxApproved)
              THEN Respond(Rejection(200, "AmountTooLow",
                        <<req.loanAmount.value, maxApproved>>))
              ELSE pc' = "terms" /\ res' = res
    /\ UNCHANGED <<ui, other, prev, op, LOAN_TIERS, f, score, tierLabel, req, chain>>

\* Math.round(interestAmount * 100), in cents.
InterestAmount(approvedAmount, interestRate, repaymentDays) ==
    RoundDiv(approvedAmount * interestRate * repaymentDays, 365)

\* Math.round(totalRepaymentAmount * 100), in cents.
TotalRepaymentAmount(approvedAmount, interestRate, repaymentDays) ==
    RoundDiv(approvedAmount * (36500 + interestRate * repaymentDays), 365)

\* Math.round(dailyPayment * 100), in cents.
DailyPayment(approvedAmount, interestRate, repaymentDays) ==
    RoundDiv(approvedAmount * (36500 + interestRate * repaymentDays),
             365 * repaymentDays)

\* Step 7 and the success response; currency in cents, DTI in tenths of a
\* percent.  With repaymentDays not a number the three amounts are NaN, which
\* JSON sends as null ({} here), and repaymentDays itself is dropped.
ProposedTerms(loanAmount, term, tier, profile, income, debt, maxApproved) ==
    LET approvedAmount == Min2(loanAmount, maxApproved)
        interestRate == tier.baseInterestRate
        repaymentDays == TermLookup(term)
        days == repaymentDays.value
        isNumber == repaymentDays.kind = "number"
    IN  [approvedAmount |-> approvedAmount,
         requestedAmount |-> loanAmount,
         interestRate |-> interestRate,
         repaymentTerm |-> term,
         repaymentDays |-> IF isNumber THEN {days} ELSE {},
         interestAmount |->
             IF isNumber THEN {InterestAmount(approvedAmount, interestRate, days)}
             ELSE {},
         totalRepaymentAmount |->
             IF isNumber THEN {TotalRepaymentAmount(approvedAmount, interestRate, days)}
             ELSE {},
         dailyPayment |->
             IF isNumber THEN {DailyPayment(approvedAmount, interestRate, days)}
             ELSE {},
         tier |-> tier.level,
         tigerScore |-> profile.tigerScore,
         verifiedIncome |-> income,
         currentDti |-> DtiTenths(debt, income),
         outstandingDebt |-> RoundDiv(debt, 10000)]

TermCalculation ==
    /\ op = "apply" /\ pc = "terms"
    /\ gates' = Append(gates, "terms")
    /\ Respond(Approval(ProposedTerms(req.loanAmount.value, req.repaymentTerm, TheTier,
                    TheProfile, loc.verifiedMonthlyIncomeUSD, loc.outstandingDebt,
                    loc.maxApprovedLoanAmount)))
    /\ UNCHANGED <<ui, other, prev, op, LOAN_TIERS, f, score, tierLabel, req, chain, loc>>

\* ------------------------------------- GET /api/loan/eligibility/:walletAddress

EligibilityValidate ==
    /\ op = "eligibility" /\ pc = "start"
    /\ gates' = Append(gates, "validate")
    /\ IF req.walletAddress # "wallet"
       THEN Respond(Rejection(400, "InvalidWallet", <<>>))
       ELSE pc' = "profile" /\ res' = res
    /\ UNCHANGED <<ui, other, prev, op, LOAN_TIERS, f, score, tierLabel, req, chain, loc>>

EligibilityFetchProfile ==
    /\ op = "eligibility" /\ pc = "profile"
    /\ gates' = Append(gates, "profile")
    /\ \E outcome \in {"error", "absent", "found"} :
       \E p \in IF outcome = "found" THEN Profiles ELSE {CHOOSE x \in Profiles : TRUE} :
          LET userProfile == getUserProfile(outcome, p)
          IN  /\ SameProfileRead(outcome, p)
              /\ chain' = [chain EXCEPT !.profileRead = outcome,
                                        !.profile = IF outcome = "found" THEN {p} ELSE {}]
              /\ loc' = [loc EXCEPT !.userProfile = userProfile]
              /\ IF userProfile = {}
                 THEN Respond(Rejection(200, "ProfileNotFound", <<>>))
                 ELSE pc' = "report" /\ res' = res
    /\ UNCHANGED <<ui, other, prev, op, LOAN_TIERS, f, score, tierLabel, req>>

\* isEligible; with verifiedIncome 0 the first conjunct already fails.
IsEligible(income, debt, tier) ==
    income >= MIN_REQUIRED_INCOME_PROOF /\ ~DtiExceeds(debt, income, tier.maxDtiRatio)

\* The eligibility object; currentDti is {} when the division is by 0.
Eligibility(profile, tier, income, debt) ==
    [tigerScore |-> profile.tigerScore,
     tier |-> tier,
     maxEligibleAmount |-> MaxApprovedLoanAmount(tier, profile.tigerScore, income),
     verifiedIncome |-> income,
     currentDti |-> IF income = 0 THEN {} ELSE {DtiTenths(debt, income)},
     outstandingDebt |-> RoundDiv(debt, 10000),
     isEligible |-> IsEligible(income, debt, tier)]

\* Tier, income, await getOutstandingLoans(...), the figures and the response.
EligibilityRespond ==
    /\ op = "eligibility" /\ pc = "report"
    /\ gates' = Append(gates, "report")
    /\ \E outcome \in {"ok", "error"} :
       \E accounts \in IF outcome = "ok" THEN LoanAccountLists ELSE {<<>>} :
          LET appropriateTier == EligibilityTier(LOAN_TIERS, TheProfile.tigerScore)
              verifiedIncome == getVerifiedIncome(TheProfile)
              outstandingLoans == getOutstandingLoans(outcome, accounts)
              outstandingDebt == SumAmounts(outstandingLoans)
          IN  /\ SameLoansRead(outcome, accounts)
              /\ chain' = [chain EXCEPT !.loansRead = outcome, !.accounts = accounts]
              /\ loc' = [loc EXCEPT !.appropriateTier = {appropriateTier},
                                    !.verifiedMonthlyIncomeUSD = verifiedIncome,
                                    !.outstandingLoans = outstandingLoans,
                                    !.outstandingDebt = outstandingDebt]
              /\ Respond(EligibilityReport(Eligibility(TheProfile, appropriateTier,
                            verifiedIncome, outstandingDebt)))
    /\ UNCHANGED <<ui, other, prev, op, LOAN_TIERS, f, score, tierLabel, req>>

\* ------------------------------------------------ POST /risk/recalculate

\* req.body of the route; a missing monthlyIncome or debt defaults to 0.
IncomeInputs == {0, 1, 1999, 2000, 2001, 5000, 5001}

DebtInputs == {0, 3}

RecalculateRequests ==
    [wallet : WalletInputs, monthlyIncome : IncomeInputs, debt : DebtInputs]

\* What getSignaturesForAddress(limit 1000) amounts to: the number of
\* signatures and the age in days of the oldest one.
TxStatsValues ==
    { [txCount |-> 0, walletAgeDays |-> 0],
      [txCount |-> 100, walletAgeDays |-> 180],
      [txCount |-> 101, walletAgeDays |-> 181] }

\* What getParsedTokenAccountsByOwner amounts to: the token accounts and
\* those among them with decimals 0 and uiAmount 1.
TokenStatsValues ==
    { [tokenCount |-> 0, nftCount |-> 0],
      [tokenCount |-> 1, nftCount |-> 0],
      [tokenCount |-> 2, nftCount |-> 1] }

\* Time in hours since the epoch.  Date.now() at a midnight and at a noon.
NowValues == {1464, 1476}

\* blockTime of the first signature of a list: none (0 is as falsy as null),
\* just outside, at the edge of, and inside the 30 days, and ahead of now.
SigStarts == {0, 732, 744, 756, 1500}

\* Hours between one signature and the next.
SigSteps == {0, 1, 24}

\* How many signatures a list holds: none, few, and about one for each day of
\* the 30 days.
SigCounts == {0, 1, 2, 30, 31, MaxSigs}

\* The blockTimes getSignaturesForAddress(limit 500) returns.
SigLists ==
    { [i \in 1..n |-> start + (i - 1) * step] :
        n \in SigCounts, start \in SigStarts, step \in SigSteps }

THIRTY_DAYS == 30 * 24

\* sigs.filter(s => s.blockTime && (now - s.blockTime * 1000) <= THIRTY_DAYS)
RecentSigs(sigs, now) ==
    SelectSeq(sigs, LAMBDA blockTime : blockTime # 0 /\ now - blockTime <= THIRTY_DAYS)

\* new Date(blockTime * 1000).toISOString().slice(0, 10): the UTC date, as
\* the number of the day.
IsoDate(blockTime) == blockTime \div 24

\* solanaClient.ts getActivityRegularity, after the read; avgTxPerActiveDay
\* in hundredths.
getActivityRegularity(sigs, now) ==
    LET recent == RecentSigs(sigs, now)
        days == {IsoDate(recent[i]) : i \in 1..Len(recent)}
        activeDaysLast30 == Cardinality(days)
        raw == IF activeDaysLast30 = 0 THEN 0
               ELSE RoundDiv(3 * activeDaysLast30 * activeDaysLast30 + 10 * Len(recent),
                             activeDaysLast30)
    IN  [activeDaysLast30 |-> activeDaysLast30,
         avgTxPerActiveDay |->
             IF activeDaysLast30 = 0 THEN 0
             ELSE RoundDiv(100 * Len(recent), activeDaysLast30),
         activityRegularityScore |-> IF raw >= 100 THEN 100 ELSE raw]

\* Mutant: a rejected read is taken as settled.
RejectedNever(outcome) == FALSE

\* await: a read that rejects is rethrown into the caller.
Rejected(outcome) == outcome # "ok"

\* features.ts buildFeatures, the record it returns.
buildFeatures(stats, assets, regularity) ==
    [txCount |-> stats.txCount,
     walletAgeDays |-> stats.walletAgeDays,
     nftCount |-> assets.nftCount,
     successfulRepayments |-> 0,
     defaults |-> 0,
     humanVerified |-> FALSE,
     tokenCount |-> assets.tokenCount,
     hasVC |-> assets.tokenCount > 0,
     activeDaysLast30 |-> regularity.activeDaysLast30,
     avgTxPerActiveDay |-> regularity.avgTxPerActiveDay,
     activityRegularityScore |-> {regularity.activityRegularityScore}]

\* Mutant: a positive income also counts as a human verification.
deriveStripeIncomeFeaturesSettingVerified(monthlyIncome, debt) ==
    [incomeVerified |-> monthlyIncome > 0,
     humanVerified |-> monthlyIncome > 0,
     incomeBracket |-> IF monthlyIncome > 5000 THEN "high"
                       ELSE IF monthlyIncome > 2000 THEN "mid" ELSE "low",
     incomeDebtRatio |-> IF debt = 0 THEN monthlyIncome * 100
                         ELSE RoundDiv(monthlyIncome * 100, debt)]

\* stripeOracle.ts deriveStripeIncomeFeatures; incomeDebtRatio in hundredths.
deriveStripeIncomeFeatures(monthlyIncome, debt) ==
    [incomeVerified |-> monthlyIncome > 0,
     incomeBracket |-> IF monthlyIncome > 5000 THEN "high"
                       ELSE IF monthlyIncome > 2000 THEN "mid" ELSE "low",
     incomeDebtRatio |-> IF debt = 0 THEN monthlyIncome * 100
                         ELSE RoundDiv(monthlyIncome * 100, debt)]

\* {...baseFeatures, ...stripeFeatures}: a key of the second wins.
Spread(baseFeatures, stripeFeatures) == stripeFeatures @@ baseFeatures

\* The three bodies the route sends.
WalletRequired == [status |-> 400, error |-> {"wallet required"}, detail |-> {}, report |-> {}]

ReadFailure(message) ==
    [status |-> 500, error |-> {"failed to read wallet data"}, detail |-> {message},
     report |-> {}]

ScoreReport(wallet, s, tier, features) ==
    [status |-> 200, error |-> {}, detail |-> {},
     report |-> {[wallet |-> wallet, score |-> s, tier |-> tier,
                  features_used |-> features]}]

\* The handler's locals: what the three reads of buildFeatures returned.
NoRiskLocals == [stats |-> {}, assets |-> {}, regularity |-> {}]

\* The message of the error a read throws: new PublicKey(wallet) for a wallet
\* that is no public key, the RPC client otherwise.
ErrorMessage(wallet) ==
    IF wallet # "wallet" THEN "Invalid public key input" ELSE "fetch failed"

\* The outcomes a read can have for the wallet.
ReadOutcomes(wallet) == IF wallet # "wallet" THEN {"error"} ELSE {"ok", "error"}

RecalculateValidate ==
    /\ op = "recalculate" /\ pc = "start"
    /\ IF req.wallet = ""
       THEN Respond(WalletRequired)
       ELSE pc' = "txStats" /\ res' = res
    /\ UNCHANGED <<ui, other, prev, op, LOAN_TIERS, f, score, tierLabel, req, chain, loc, gates>>

\* const stats = await getWalletTxStats(wallet)
GetWalletTxStats ==
    /\ op = "recalculate" /\ pc = "txStats"
    /\ gates' = Append(gates, "txStats")
    /\ \E outcome \in ReadOutcomes(req.wallet) :
       \E stats \in IF outcome = "ok" THEN TxStatsValues
                    ELSE {[txCount |-> 0, walletAgeDays |-> 0]} :
          /\ chain.txRead # "pending" =>
                (outcome = chain.txRead /\ (outcome = "ok" => chain.txStats = {stats}))
          /\ chain' = [chain EXCEPT !.txRead = outcome,
                                    !.txStats = IF outcome = "ok" THEN {stats} ELSE {}]
          /\ IF Rejected(outcome)
             THEN Respond(ReadFailure(ErrorMessage(req.wallet))) /\ loc' = loc
             ELSE /\ loc' = [loc EXCEPT !.stats = {stats}]
                  /\ pc' = "tokenStats" /\ res' = res
    /\ UNCHANGED <<ui, other, prev, op, LOAN_TIERS, f, score, tierLabel, req>>

\* const assets = await getTokenAccountStats(wallet)
GetTokenAccountStats ==
    /\ op = "recalculate" /\ pc = "tokenStats"
    /\ gates' = Append(gates, "tokenStats")
    /\ \E outcome \in ReadOutcomes(req.wallet) :
       \E assets \in IF outcome = "ok" THEN TokenStatsValues
                     ELSE {[tokenCount |-> 0, nftCount |-> 0]} :
          /\ chain.tokenRead # "pending" =>
                (outcome = chain.tokenRead /\ (outcome = "ok" => chain.tokenStats = {assets}))
          /\ chain' = [chain EXCEPT !.tokenRead = outcome,
                                    !.tokenStats = IF outcome = "ok" THEN {assets} ELSE {}]
          /\ IF Rejected(outcome)
             THEN Respond(ReadFailure(ErrorMessage(req.wallet))) /\ loc' = loc
             ELSE /\ loc' = [loc EXCEPT !.assets = {assets}]
                  /\ pc' = "activity" /\ res' = res
    /\ UNCHANGED <<ui, other, prev, op, LOAN_TIERS, f, score, tierLabel, req>>

\* const regularity = await getActivityRegularity(wallet)
GetActivityRegularity ==
    /\ op = "recalculate" /\ pc = "activity"
    /\ gates' = Append(gates, "activity")
    /\ \E outcome \in ReadOutcomes(req.wallet) :
       \E sigs \in IF outcome = "ok" THEN SigLists ELSE {<<>>} :
       \E now \in IF outcome = "ok" THEN NowValues ELSE {0} :
          /\ chain.activityRead # "pending" =>
                (outcome = chain.activityRead /\ sigs = chain.sigs /\ now = chain.now)
          /\ chain' = [chain EXCEPT !.activityRead = outcome, !.sigs = sigs, !.now = now]
          /\ IF Rejected(outcome)
             THEN Respond(ReadFailure(ErrorMessage(req.wallet))) /\ loc' = loc
             ELSE /\ loc' = [loc EXCEPT !.regularity = {getActivityRegularity(sigs, now)}]
                  /\ pc' = "respond" /\ res' = res
    /\ UNCHANGED <<ui, other, prev, op, LOAN_TIERS, f, score, tierLabel, req>>

\* The rest of the try block: the features, the score, the tier, the response.
RecalculateRespond ==
    /\ op = "recalculate" /\ pc = "respond"
    /\ gates' = Append(gates, "respond")
    /\ \E stats \in loc.stats : \E assets \in loc.assets : \E regularity \in loc.regularity :
          LET baseFeatures == buildFeatures(stats, assets, regularity)
              stripeFeatures == deriveStripeIncomeFeatures(req.monthlyIncome, req.debt)
              features == Spread(baseFeatures, stripeFeatures)
              s == computeTigerScore(features)
              tier == getTier(s)
          IN  /\ f' = features
              /\ score' = {s}
              /\ tierLabel' = {tier}
              /\ Respond(ScoreReport(req.wallet, s, tier, features))
    /\ UNCHANGED <<ui, other, prev, op, LOAN_TIERS, req, chain, loc>>

\* POST /risk/recalculate sent again for the same wallet with another
\* monthlyIncome and debt, the chain and the clock as they were.
RecalculateAgain ==
    /\ op = "recalculate" /\ pc = "done" /\ prev = <<>>
    /\ \E monthlyIncome \in IncomeInputs : \E debt \in DebtInputs :
          /\ <<monthlyIncome, debt>> # <<req.monthlyIncome, req.debt>>
          /\ req' = [req EXCEPT !.monthlyIncome = monthlyIncome, !.debt = debt]
    /\ pc' = "start"
    /\ prev' = res
    /\ res' = <<>>
    /\ gates' = <<>>
    /\ loc' = NoRiskLocals
    /\ f' = NoFeatures
    /\ score' = {}
    /\ tierLabel' = {}
    /\ UNCHANGED <<ui, other, op, LOAN_TIERS, chain>>

\* ------------------------------------------- app/module1/onboard/page.tsx

\* The page as mounted: useState(0), useState(false), useState(''); inflight
\* is the argument of a handleNextStep call waiting at its await, log the
\* simulated checks that have settled.
OpenPage ==
    [route |-> "/module1/onboard", step |-> 0, loading |-> FALSE, error |-> "",
     inflight |-> {}, log |-> <<>>]

\* renderStepContent: the argument the button shown for the step passes to
\* handleNextStep; the default case is the liveness step.
RenderedStep(step) == IF step \in {0, 1, 2} THEN step ELSE 3

\* useEffect on step: router.push('/module1/verified') when step === 3.
RouteAfter(step, route) == IF step = 3 THEN "/module1/verified" ELSE route

\* onClick of the step's button (disabled while loading): handleNextStep up to
\* its await.
ClickNextStep ==
    /\ op = "onboard" /\ ui.route = "/module1/onboard"
    /\ ~ui.loading
    /\ Len(ui.log) < MaxChecks
    /\ ui' = [ui EXCEPT !.loading = TRUE, !.error = "",
                        !.inflight = {RenderedStep(ui.step)}]
    /\ UNCHANGED <<op, pc, LOAN_TIERS, f, score, tierLabel, req, chain, loc, gates,
                   res, prev, other>>

\* handleNextStep after the delay: Math.random() < 0.1 fails the check, else
\* setStep(currentStep + 1); the effect on step runs with the update.
CheckSettles ==
    /\ op = "onboard" /\ ui.inflight # {}
    /\ \E currentStep \in ui.inflight : \E failed \in BOOLEAN :
          ui' = IF failed
                THEN [ui EXCEPT !.error = "Verification step failed. Please try again.",
                                !.loading = FALSE,
                                !.inflight = {},
                                !.log = Append(@, [step |-> currentStep, ok |-> FALSE])]
                ELSE [ui EXCEPT !.step = currentStep + 1,
                                !.loading = FALSE,
                                !.inflight = {},
                                !.log = Append(@, [step |-> currentStep, ok |-> TRUE]),
                                !.route = RouteAfter(currentStep + 1, @)]
    /\ UNCHANGED <<op, pc, LOAN_TIERS, f, score, tierLabel, req, chain, loc, gates,
                   res, prev, other>>

\* ------------------------------------------------- a caller's second request

\* The amounts a caller asks for after an eligibility report: small, large, and
\* the reported maxEligibleAmount itself.
FollowUpAmounts(e) == {3, 100, e.maxEligibleAmount}

\* POST /api/loan/apply sent by the caller that has just received an
\* eligibility report, for the same wallet; the handler starts afresh, the
\* chain still holds the accounts it held.
ApplyAfterEligibility ==
    /\ op = "eligibility" /\ pc = "done" /\ prev = <<>>
    /\ \E i \in 1..Len(res) : \E e \in res[i].eligibility :
       \E a \in FollowUpAmounts(e) :
          req' = [walletAddress |-> req.walletAddress,
                  loanAmount |-> [kind |-> "number", value |-> a],
                  repaymentTerm |-> "30_days"]
    /\ op' = "apply"
    /\ pc' = "start"
    /\ prev' = res
    /\ res' = <<>>
    /\ gates' = <<>>
    /\ loc' = NoLocals
    /\ chain' = [chain EXCEPT !.recentApplications = {}]
    /\ UNCHANGED <<ui, other, LOAN_TIERS, f, score, tierLabel>>

\* POST /api/loan/apply sent a second time with the same body, the chain
\* holding the same accounts; Math.random() is drawn anew by the handler.
ApplyAgain ==
    /\ op = "apply" /\ pc = "done" /\ prev = <<>>
    /\ pc' = "start"
    /\ prev' = res
    /\ res' = <<>>
    /\ gates' = <<>>
    /\ loc' = NoLocals
    /\ chain' = [chain EXCEPT !.recentApplications = {}]
    /\ UNCHANGED <<ui, other, op, req, LOAN_TIERS, f, score, tierLabel>>

\* ------------------------------------------------------------ specification

Next ==
    \/ ComputeTigerScore
    \/ GetTier
    \/ ValidateInput
    \/ FetchUserProfile
    \/ ResolveTier
    \/ IncomeGate
    \/ DtiGate
    \/ VelocityGate
    \/ AmountResolution
    \/ TermCalculation
    \/ EligibilityValidate
    \/ EligibilityFetchProfile
    \/ EligibilityRespond

Spec == Init /\ [][Next]_vars

\* Every step of a handler is a continuation the event loop runs once its
\* awaited read has settled.
FairSpec == Spec /\ WF_vars(Next)

\* A session: an eligibility check, then an application for the same wallet.
SessionInit == Init /\ op = "eligibility"

SessionNext ==
    \/ EligibilityValidate
    \/ EligibilityFetchProfile
    \/ EligibilityRespond
    \/ ApplyAfterEligibility
    \/ ValidateInput
    \/ FetchUserProfile
    \/ ResolveTier
    \/ IncomeGate
    \/ DtiGate
    \/ VelocityGate
    \/ AmountResolution
    \/ TermCalculation

SessionSpec == SessionInit /\ [][SessionNext]_vars

\* The same application submitted twice.
RepeatInit == Init /\ op = "apply"

RepeatNext ==
    \/ ValidateInput
    \/ FetchUserProfile
    \/ ResolveTier
    \/ IncomeGate
    \/ DtiGate
    \/ VelocityGate
    \/ AmountResolution
    \/ TermCalculation
    \/ ApplyAgain

RepeatSpec == RepeatInit /\ [][RepeatNext]_vars

\* One request to POST /risk/recalculate.
RiskInit ==
    /\ op = "recalculate"
    /\ other = NoOther
    /\ ui = NoPage
    /\ pc = "start"
    /\ LOAN_TIERS = DefaultTiers
    /\ f = NoFeatures
    /\ score = {}
    /\ tierLabel = {}
    /\ req \in RecalculateRequests
    /\ chain = NoReads
    /\ loc = NoRiskLocals
    /\ gates = <<>>
    /\ res = <<>>
    /\ prev = <<>>

RiskNext ==
    \/ RecalculateValidate
    \/ GetWalletTxStats
    \/ GetTokenAccountStats
    \/ GetActivityRegularity
    \/ RecalculateRespond

RiskSpec == RiskInit /\ [][RiskNext]_vars

\* The same wallet recalculated twice, first without income and debt.
RiskRepeatInit == RiskInit /\ req.monthlyIncome = 0 /\ req.debt = 0

RiskRepeatNext == RiskNext \/ RecalculateAgain

RiskRepeatSpec == RiskRepeatInit /\ [][RiskRepeatNext]_vars

\* A visitor on the onboarding page; no request to the servers.
OnboardInit ==
    /\ op = "onboard"
    /\ pc = "done"
    /\ LOAN_TIERS = DefaultTiers
    /\ f = NoFeatures
    /\ score = {}
    /\ tierLabel = {}
    /\ req = NoRequest
    /\ chain = NoReads
    /\ loc = NoLocals
    /\ gates = <<>>
    /\ res = <<>>
    /\ prev = <<>>
    /\ other = NoOther
    /\ ui = OpenPage

OnboardNext ==
    \/ ClickNextStep
    \/ CheckSettles

OnboardSpec == OnboardInit /\ [][OnboardNext]_vars

\* -------------------------------------------- two requests in flight
\* Express runs one handler at a time and changes handler only at an await.
\* Everything a handler works with is its req, its res and the const/let
\* variables of its own call; the module level holds only LOAN_TIERS,
\* REPAYMENT_TERMS and the connection, none of which a handler assigns.

\* The running call: its request, its variables, its response so far.
Context ==
    [op |-> op, pc |-> pc, f |-> f, score |-> score, tierLabel |-> tierLabel,
     req |-> req, chain |-> chain, loc |-> loc, gates |-> gates, res |-> res]

\* A call that has been received and has not run yet.
Received(o, r, ch) ==
    [op |-> o, pc |-> "start", f |-> NoFeatures, score |-> {}, tierLabel |-> {},
     req |-> r, chain |-> ch,
     loc |-> IF o = "recalculate" THEN NoRiskLocals ELSE NoLocals,
     gates |-> <<>>, res |-> <<>>]

\* Mutant: the profile that was read is kept at module level, so that a call
\* that resumes with a profile finds the one the call before it has read.
ModuleLevelUserProfile(suspended, running) ==
    IF /\ "userProfile" \in DOMAIN suspended /\ "userProfile" \in DOMAIN running
       /\ suspended.userProfile # {} /\ running.userProfile # {}
    THEN [suspended EXCEPT !.userProfile = running.userProfile]
    ELSE suspended

\* The variables a call finds when it resumes: its own (let userProfile,
\* let appropriateTier, const outstandingLoans, ... inside the handler).
HandlerLocals(suspended, running) == suspended

\* The running call reaches an await or its end and the event loop resumes
\* the other call.
ResumeOther ==
    /\ other.op # "none" /\ other.pc # "done"
    /\ op' = other.op
    /\ pc' = other.pc
    /\ f' = other.f
    /\ score' = other.score
    /\ tierLabel' = other.tierLabel
    /\ req' = other.req
    /\ chain' = other.chain
    /\ loc' = HandlerLocals(other.loc, loc)
    /\ gates' = other.gates
    /\ res' = other.res
    /\ other' = Context
    /\ UNCHANGED <<ui, prev, LOAN_TIERS>>

\* The requests of the two calls: valid and invalid applications, an
\* eligibility check, recalculations with and without income.
ConcRequests ==
    {<<"apply", [walletAddress |-> "wallet", loanAmount |-> [kind |-> "number", value |-> v],
                 repaymentTerm |-> "30_days"]>> : v \in {0, 100}}
    \cup {<<"eligibility", [walletAddress |-> "wallet", loanAmount |-> NoRequest.loanAmount,
                            repaymentTerm |-> ""]>>}
    \cup {<<"recalculate", [wallet |-> "wallet", monthlyIncome |-> i, debt |-> 0]>> :
             i \in {0, 5001}}

\* What the chain holds for the wallet of a call: the outcome of each read
\* the call may make.  recentApplications is the call's own draw.
ConcChains ==
    { [NoReads EXCEPT !.profileRead = "found",
                      !.profile = {[tigerScore |-> 250, humanVerifiedVcHash |-> TRUE]},
                      !.loansRead = "ok",
                      !.accounts = <<[kind |-> "loan", status |-> 0,
                                      outstandingAmount |-> 40000000]>>,
                      !.txRead = "ok", !.txStats = {[txCount |-> 101, walletAgeDays |-> 181]},
                      !.tokenRead = "ok", !.tokenStats = {[tokenCount |-> 2, nftCount |-> 1]},
                      !.activityRead = "ok", !.sigs = <<756, 780>>, !.now = 1476],
      [NoReads EXCEPT !.profileRead = "found",
                      !.profile = {[tigerScore |-> 1000, humanVerifiedVcHash |-> TRUE]},
                      !.loansRead = "error",
                      !.txRead = "ok", !.txStats = {[txCount |-> 0, walletAgeDays |-> 0]},
                      !.tokenRead = "ok", !.tokenStats = {[tokenCount |-> 0, nftCount |-> 0]},
                      !.activityRead = "ok", !.now = 1464],
      [NoReads EXCEPT !.profileRead = "absent",
                      !.loansRead = "ok",
                      !.txRead = "ok", !.txStats = {[txCount |-> 100, walletAgeDays |-> 180]},
                      !.tokenRead = "error",
                      !.activityRead = "error"] }

\* Two calls received together, each for a wallet of its own.
ConcInit ==
    /\ LOAN_TIERS = DefaultTiers
    /\ ui = NoPage
    /\ prev = <<>>
    /\ \E first \in ConcRequests : \E second \in ConcRequests :
       \E ch1 \in ConcChains : \E ch2 \in ConcChains :
          /\ op = first[1]
          /\ pc = "start"
          /\ f = NoFeatures
          /\ score = {}
          /\ tierLabel = {}
          /\ req = first[2]
          /\ chain = ch1
          /\ loc = Received(first[1], first[2], ch1).loc
          /\ gates = <<>>
          /\ res = <<>>
          /\ other = Received(second[1], second[2], ch2)

\* One step of the running call.
HandlerStep ==
    \/ ValidateInput
    \/ FetchUserProfile
    \/ ResolveTier
    \/ IncomeGate
    \/ DtiGate
    \/ VelocityGate
    \/ AmountResolution
    \/ TermCalculation
    \/ EligibilityValidate
    \/ EligibilityFetchProfile
    \/ EligibilityRespond
    \/ RecalculateValidate
    \/ GetWalletTxStats
    \/ GetTokenAccountStats
    \/ GetActivityRegularity
    \/ RecalculateRespond

ConcNext ==
    \/ ValidateInput
    \/ FetchUserProfile
    \/ ResolveTier
    \/ IncomeGate
    \/ DtiGate
    \/ VelocityGate
    \/ AmountResolution
    \/ TermCalculation
    \/ EligibilityValidate
    \/ EligibilityFetchProfile
    \/ EligibilityRespond
    \/ RecalculateValidate
    \/ GetWalletTxStats
    \/ GetTokenAccountStats
    \/ GetActivityRegularity
    \/ RecalculateRespond
    \/ ResumeOther

ConcSpec == ConcInit /\ [][ConcNext]_vars

\* ================================================================ claims

\* The approvals and the rejections among the responses sent so far.
Approvals == {res[i].proposedTerms : i \in 1..Len(res)} \ {{}}

RejectionCodes ==
    {r.code : r \in UNION {res[i].rejectionReason : i \in 1..Len(res)}}

Evaluated(gate) == \E i \in 1..Len(gates) : gates[i] = gate

\* The profile the store returned, and the figures of section 4.4 read off it.
StoredScore == (CHOOSE p \in chain.profile : TRUE).tigerScore

StoredIncome == getVerifiedIncome(CHOOSE p \in chain.profile : TRUE)

\* The tiers of the table the score qualifies for.
QualifyingTiers(tiers, s) ==
    {tiers[i] : i \in {j \in 1..Len(tiers) : tiers[j].minTigerScore <= s}}

\* The qualifying tier with the greatest minScore.
GreatestTier(tiers, s) ==
    CHOOSE t \in QualifyingTiers(tiers, s) :
        \A u \in QualifyingTiers(tiers, s) : u.minTigerScore <= t.minTigerScore

Clamp(x, lo, hi) == IF x < lo THEN lo ELSE IF x > hi THEN hi ELSE x

\* The sum of the eight terms of section 4.2, unclamped.
FullSum(ft) ==
    300
    + (IF ft.humanVerified THEN 80 ELSE 0)
    + (IF ft.walletAgeDays > 180 THEN 40 ELSE 0)
    + (IF ft.txCount > 100 THEN 40 ELSE 0)
    + (IF ft.nftCount > 0 THEN 20 ELSE 0)
    + 60 * ft.successfulRepayments
    - 120 * ft.defaults
    + (IF ft.hasVC THEN 30 ELSE 0)
    + (IF \E a \in ft.activityRegularityScore : a > 40 THEN 40 ELSE 0)

\* C1: for every WalletFeatures input the score computeTigerScore returns lies
\* in [0, 1000].
C1_ScoreInRange == \A s \in score : 0 <= s /\ s <= 1000

\* C2: computeTigerScore returns clamp(S, 0, 1000), S being the full sum of
\* the eight terms: the sum is completed first and only then clamped.
C2_ScoreIsClampedFullSum == \A s \in score : s = Clamp(FullSum(f), 0, 1000)

\* C3: every approval of ApplyForLoan has approvedAmount = min(requestedAmount,
\* tier.maxLoanLimit, floor(trustScore * 0.8), floor(verifiedIncome * 0.3)), the
\* tier being the one resolved for the profile's trustScore, and so never
\* exceeds requestedAmount.
C3_ApprovedAmountIsMin ==
    \A a \in Approvals : \A t \in a :
        /\ t.approvedAmount =
              Min2(Min2(req.loanAmount.value,
                        GreatestTier(LOAN_TIERS, StoredScore).maxLoanLimit),
                   Min2((StoredScore * 8) \div 10, (StoredIncome * 3) \div 10))
        /\ t.approvedAmount <= req.loanAmount.value

\* An approval cut down to the income-based cap, below the amount asked for.
C3_Witness ==
    \E a \in Approvals : \E t \in a :
        /\ t.approvedAmount = (StoredIncome * 3) \div 10
        /\ t.approvedAmount < req.loanAmount.value
        /\ t.approvedAmount < GreatestTier(LOAN_TIERS, StoredScore).maxLoanLimit

\* What section 4.4 calls maxEligibleAmount, from the stored profile.
StoredMaxEligible ==
    Min3(GreatestTier(LOAN_TIERS, StoredScore).maxLoanLimit,
         (StoredScore * 8) \div 10, (StoredIncome * 3) \div 10)

\* C4 as stated: a request reaching amount resolution with maxEligibleAmount
\* below 10 is rejected with AmountTooLow whatever the amount asked for; no
\* approval is emitted for a borrower whose maxEligibleAmount is below 10.
C4_NoApprovalBelowFloor ==
    (op = "apply" /\ Evaluated("amount") /\ StoredMaxEligible < 10)
        => (RejectionCodes = {"AmountTooLow"} /\ Approvals = {})

\* C4 as amended: a request reaching amount resolution is rejected with
\* AmountTooLow exactly when maxEligibleAmount is below 10 and the amount asked
\* for exceeds maxEligibleAmount; an amount within maxEligibleAmount goes on to
\* approval even when maxEligibleAmount is below 10.
C4_AmountTooLowIffExceedsLowMax ==
    (op = "apply" /\ Evaluated("amount"))
        => /\ ("AmountTooLow" \in RejectionCodes)
                <=> (StoredMaxEligible < 10 /\ req.loanAmount.value > StoredMaxEligible)
           /\ ("AmountTooLow" \notin RejectionCodes /\ pc = "done")
                => \E a \in Approvals : \E t \in a :
                      t.approvedAmount = Min2(req.loanAmount.value, StoredMaxEligible)

\* Scenario E: far more asked for than a maxEligibleAmount below 10 allows.
C4_Witness ==
    /\ op = "apply" /\ "AmountTooLow" \in RejectionCodes
    /\ req.loanAmount.value = 100000
    /\ StoredMaxEligible < 10 /\ StoredMaxEligible > 0

\* debt / 1000000 / income > ratio / 100 for a debt in base units: the ceiling
\* is ratio * income * 10000 base units, and the debt lies above it exactly
\* when debt - 1 reaches it.
AboveCeiling(debt, income, ratio) == (debt - 1) \div 10000 >= ratio * income

\* C5: past the validation, profile, tier and income gates, ApplyForLoan rejects
\* with HighDebtToIncome if and only if outstandingDebt / verifiedIncome is
\* strictly greater than the tier's maxDtiRatio; a DTI equal to the ceiling
\* passes, and the message cites the computed and the allowed percentage.
C5_DtiRejectionIffStrictlyAbove ==
    (op = "apply" /\ Evaluated("dti"))
        => LET tier == GreatestTier(LOAN_TIERS, StoredScore)
               above == AboveCeiling(loc.outstandingDebt, StoredIncome, tier.maxDtiRatio)
           IN  /\ ("HighDebtToIncome" \in RejectionCodes) <=> above
               /\ above =>
                    \E i \in 1..Len(res) : \E r \in res[i].rejectionReason :
                        r.args = << RoundDiv(loc.outstandingDebt, StoredIncome * 1000),
                                    tier.maxDtiRatio * 10 >>

\* Tier 2 with a DTI of 50 %: rejected, the message citing 50.0% and 40.0%.
C5_Witness ==
    /\ op = "apply"
    /\ \E i \in 1..Len(res) : \E r \in res[i].rejectionReason :
          r.code = "HighDebtToIncome" /\ r.args = <<500, 400>>
    /\ \E t \in loc.appropriateTier : t.level = 2

\* A DTI exactly at the ceiling that went past the gate.
C5_WitnessAtCeiling ==
    /\ op = "apply" /\ Evaluated("velocity")
    /\ loc.outstandingDebt > 0
    /\ StoredIncome <= 1000
    /\ loc.outstandingDebt = TheTier.maxDtiRatio * StoredIncome * 10000

\* The order of section 4.5, the approval stage last.
GateOrder ==
    <<"validate", "profile", "tier", "income", "dti", "velocity", "amount", "terms">>

GateOfCode(code) ==
    CASE code \in {"MissingFields", "InvalidAmount", "InvalidTerm", "InvalidWallet"}
            -> "validate"
      [] code = "ProfileNotFound" -> "profile"
      [] code = "InsufficientScore" -> "tier"
      [] code = "InsufficientIncome" -> "income"
      [] code = "HighDebtToIncome" -> "dti"
      [] code = "VelocityExceeded" -> "velocity"
      [] code = "AmountTooLow" -> "amount"

\* Whether a gate fails, read off the request and the upstream data alone.
GateFails(gate) ==
    CASE gate = "validate" ->
            ~ /\ req.walletAddress = "wallet"
              /\ req.loanAmount.kind = "number" /\ req.loanAmount.value > 0
              /\ req.repaymentTerm \in DOMAIN REPAYMENT_TERMS
      [] gate = "profile" -> chain.profile = {}
      [] gate = "tier" -> QualifyingTiers(LOAN_TIERS, StoredScore) = {}
      [] gate = "income" -> StoredIncome < MIN_REQUIRED_INCOME_PROOF
      [] gate = "dti" ->
            AboveCeiling(loc.outstandingDebt, StoredIncome,
                         GreatestTier(LOAN_TIERS, StoredScore).maxDtiRatio)
      [] gate = "velocity" ->
            \E n \in chain.recentApplications :
                n >= GreatestTier(LOAN_TIERS, StoredScore).loanApplicationVelocityLimit
      [] gate = "amount" ->
            StoredMaxEligible < 10 /\ req.loanAmount.value > StoredMaxEligible
      [] gate = "terms" -> FALSE

\* C6: ApplyForLoan evaluates its gates in the fixed order validate, profile,
\* tier, income, DTI, velocity, amount; the rejection it emits is that of the
\* first gate in this order that fails; once a gate rejects no later gate is
\* evaluated and no earlier gate is revisited.
C6_GatesInOrderFirstFailureRejects ==
    op = "apply" =>
        /\ Len(gates) <= Len(GateOrder)
        /\ \A i \in 1..Len(gates) : gates[i] = GateOrder[i]
        /\ \A i \in 1..(Len(gates) - 1) : ~GateFails(gates[i])
        /\ \A c \in RejectionCodes :
              GateOfCode(c) = gates[Len(gates)] /\ GateFails(gates[Len(gates)])
        /\ (gates # <<>> /\ GateFails(gates[Len(gates)]))
              => \E c \in RejectionCodes : GateOfCode(c) = gates[Len(gates)]

\* The same for the requests whose term is not a key the lookup inherits.
GatesInOrderWithoutInheritedKeys ==
    req.repaymentTerm \notin InheritedKeys => C6_GatesInOrderFirstFailureRejects

\* A rejection at the velocity gate: six gates evaluated, none after it.
C6_Witness ==
    /\ op = "apply" /\ pc = "done"
    /\ RejectionCodes = {"VelocityExceeded"}
    /\ gates = SubSeq(GateOrder, 1, 6)

\* A response is an approval carrying terms or a rejection carrying a reason.
WellShaped(r) ==
    /\ Cardinality(r.proposedTerms) + Cardinality(r.rejectionReason) = 1
    /\ r.success <=> r.proposedTerms # {}
    /\ r.eligibility = {}

\* C7: every ApplyForLoan request eventually ends with exactly one response,
\* an approval carrying terms or a rejection carrying a reason, never both and
\* never neither; no stage is retried.
C7_ExactlyOneResponse ==
    /\ [](op = "apply" =>
            /\ Len(res) <= 1
            /\ \A i \in 1..Len(res) : WellShaped(res[i])
            /\ \A i, j \in 1..Len(gates) : gates[i] = gates[j] => i = j
            /\ pc = "done" => Len(res) = 1)
    /\ (op = "apply") ~> (pc = "done" /\ Len(res) = 1)

\* The handler at its end with an approval as its one response.
C7_Witness ==
    /\ op = "apply" /\ pc = "done" /\ Len(res) = 1
    /\ res[1].success /\ res[1].proposedTerms # {}

LevelOf(t) == IF t = {} THEN -1 ELSE (CHOOSE x \in t : TRUE).level

TierRank(label) ==
    CASE label = "Bronze" -> 0
      [] label = "Silver" -> 1
      [] label = "Gold" -> 2
      [] label = "Platinum" -> 3

\* C9: tier resolution is monotonic: for scores s1 <= s2 the level resolved for
\* s1 is <= the level resolved for s2, for the resolver of ApplyForLoan, that of
\* CheckEligibility, and the label of ComputeScore.
C9_TierResolutionMonotonic ==
    /\ (op = "apply" /\ Evaluated("tier")) =>
          \A s2 \in ScoreSamples :
             /\ StoredScore <= s2 =>
                   LevelOf(loc.appropriateTier) <= LevelOf(ApplyTier(LOAN_TIERS, s2))
             /\ s2 <= StoredScore =>
                   LevelOf(ApplyTier(LOAN_TIERS, s2)) <= LevelOf(loc.appropriateTier)
    /\ (op = "eligibility" /\ Evaluated("report")) =>
          \A s2 \in ScoreSamples :
             /\ StoredScore <= s2 =>
                   LevelOf(loc.appropriateTier) <= EligibilityTier(LOAN_TIERS, s2).level
             /\ s2 <= StoredScore =>
                   EligibilityTier(LOAN_TIERS, s2).level <= LevelOf(loc.appropriateTier)
    /\ op = "score" =>
          \A l \in tierLabel : \A s \in score : \A s2 \in 0..1100 :
             /\ s <= s2 => TierRank(l) <= TierRank(getTier(s2))
             /\ s2 <= s => TierRank(getTier(s2)) <= TierRank(l)

\* CheckEligibility below the entry threshold of the table: the lowest level.
C9_Witness ==
    /\ op = "eligibility" /\ Evaluated("report")
    /\ QualifyingTiers(LOAN_TIERS, StoredScore) = {}
    /\ LevelOf(loc.appropriateTier) = 0

\* C10: for a score below every tier's minScore, tier resolution yields no
\* tier: ApplyForLoan rejects with InsufficientScore, and CheckEligibility never
\* reports a tier, or eligibility computed from one, that the score does not
\* qualify for.
C10_NoTierBelowEveryMinScore ==
    /\ (op = "apply" /\ Evaluated("tier")
            /\ QualifyingTiers(LOAN_TIERS, StoredScore) = {})
          => (RejectionCodes = {"InsufficientScore"} /\ Approvals = {})
    /\ op = "eligibility" =>
          \A i \in 1..Len(res) : \A e \in res[i].eligibility :
              e.tier.minTigerScore <= e.tigerScore

\* The eligibility reports the caller received before the current request.
PrevReports == UNION {prev[i].eligibility : i \in 1..Len(prev)}

\* C11: if CheckEligibility reports maxEligibleAmount = M for a wallet and
\* ApplyForLoan is then called for the same wallet, on unchanged upstream data,
\* with an amount a, 0 < a <= M, the application is never rejected at the
\* amount-resolution gate.
C11_NoAmountRejectionWithinReported ==
    (op = "apply" /\ prev # <<>>) =>
        \A e \in PrevReports :
            (0 < req.loanAmount.value /\ req.loanAmount.value <= e.maxEligibleAmount)
                => "AmountTooLow" \notin RejectionCodes

\* A report of a maxEligibleAmount below the floor of 10, then an application
\* for an amount within it that went through amount resolution to approval.
C11_Witness ==
    /\ op = "apply" /\ Evaluated("amount") /\ Approvals # {}
    /\ \E e \in PrevReports :
          /\ e.maxEligibleAmount < 10
          /\ 0 < req.loanAmount.value /\ req.loanAmount.value <= e.maxEligibleAmount

\* The eligibility reports among the responses sent so far.
Reports == UNION {res[i].eligibility : i \in 1..Len(res)}

\* C12: whenever CheckEligibility reports isEligible = true, every stage 2 to 7
\* of the pipeline other than the velocity gate would pass on the same upstream
\* data: the profile exists, a tier qualifies, verifiedIncome is at least the
\* minimum income, currentDti is at most the tier's maxDtiRatio, and
\* maxEligibleAmount is at least the minimum viable loan of 10.
C12_EligibleMeansGatesPass ==
    op = "eligibility" =>
        \A e \in Reports :
            e.isEligible =>
                /\ chain.profile # {}
                /\ QualifyingTiers(LOAN_TIERS, StoredScore) # {}
                /\ StoredIncome >= MIN_REQUIRED_INCOME_PROOF
                /\ ~AboveCeiling(loc.outstandingDebt, StoredIncome,
                                 GreatestTier(LOAN_TIERS, StoredScore).maxDtiRatio)
                /\ e.maxEligibleAmount >= 10

\* A read of the profile store or of the loan accounts that did not succeed.
ProfileReadFailed == chain.profileRead = "error"

LoansReadFailed ==
    \/ chain.loansRead = "error"
    \/ \E i \in 1..Len(chain.accounts) : chain.accounts[i].kind = "undecodable"

\* C13: a profile-store or debt-source read that fails makes the request end
\* as an internal error: a failed profile read is never turned into
\* ProfileNotFound, and a failed or undecodable loan-account read is never
\* turned into a debt of 0 or left out of the debt sum.
C13_FailedReadIsInternalError ==
    (pc = "done" /\ op \in {"apply", "eligibility"}) =>
        /\ ProfileReadFailed =>
              /\ "ProfileNotFound" \notin RejectionCodes
              /\ \A i \in 1..Len(res) : res[i].status >= 500
        /\ LoansReadFailed =>
              /\ Approvals = {} /\ Reports = {}
              /\ \A i \in 1..Len(res) : res[i].status >= 500

\* The stored profile carries a verification hash.
StoredHash == (CHOOSE p \in chain.profile : TRUE).humanVerifiedVcHash

\* min(200 + floor(trustScore * 0.5), 10000), the floor taken by removing the
\* odd unit before halving.
IncomeOfScore(s) ==
    LET derived == 200 + (s - (s % 2)) \div 2
    IN  IF derived <= 10000 THEN derived ELSE 10000

\* C14: for a profile that lacks a verification hash verifiedIncome is 0 and
\* ApplyForLoan, its input valid, the profile found and a tier resolved,
\* rejects with InsufficientIncome whatever the score and the debt; for a
\* profile with a hash verifiedIncome = min(200 + floor(trustScore * 0.5), 10000).
C14_IncomeFromHashAndScore ==
    /\ (op = "apply" /\ Evaluated("income")) =>
          /\ loc.verifiedMonthlyIncomeUSD =
                IF StoredHash THEN IncomeOfScore(StoredScore) ELSE 0
          /\ ~StoredHash =>
                /\ RejectionCodes = {"InsufficientIncome"}
                /\ Approvals = {}
                /\ gates[Len(gates)] = "income"
          /\ \A a \in Approvals : \A t \in a :
                t.verifiedIncome = IncomeOfScore(StoredScore)
    /\ op = "eligibility" =>
          \A e \in Reports :
              e.verifiedIncome = IF StoredHash THEN IncomeOfScore(StoredScore) ELSE 0

\* A top-tier score without a verification hash, rejected for its income.
C14_Witness ==
    /\ op = "apply" /\ pc = "done"
    /\ chain.profile # {} /\ ~StoredHash /\ StoredScore >= 600
    /\ loc.verifiedMonthlyIncomeUSD = 0
    /\ RejectionCodes = {"InsufficientIncome"}

\* A hash and a score high enough for the income to be capped at 10000.
C14_WitnessCapped ==
    /\ op = "apply" /\ Evaluated("income")
    /\ chain.profile # {} /\ StoredHash
    /\ 200 + StoredScore \div 2 > 10000
    /\ loc.verifiedMonthlyIncomeUSD = 10000

\* What a request ended with: "approved", or the reason of its rejection.
Outcome(responses) ==
    {IF responses[i].success THEN "approved"
     ELSE (CHOOSE r \in responses[i].rejectionReason : TRUE).code :
        i \in 1..Len(responses)}

\* C15: ApplyForLoan is deterministic: two requests with identical input
\* evaluated against identical upstream data produce the same outcome, approval
\* or the same rejection reason.
C15_SameRequestSameOutcome ==
    (op = "apply" /\ prev # <<>> /\ pc = "done") => Outcome(res) = Outcome(prev)

\* |totalRepayment - (approvedAmount + approvedAmount * rate * days / 36500)|
\* at most 0.01, for a total in cents: both sides multiplied by 36500.
WithinTolerance(total, approvedAmount, rate, days) ==
    LET exact == approvedAmount * (36500 + rate * days)
        diff == total * 365 - exact
    IN  -365 <= diff /\ diff <= 365

\* C16: for every approval, totalRepayment = approvedAmount + approvedAmount *
\* rate * days / 36500 within a tolerance of 0.01, rate being the resolved
\* tier's baseInterestRate and days the day count of the repayment term key.
C16_TotalRepaymentSimpleInterest ==
    \A a \in Approvals : \A t \in a :
        /\ t.repaymentTerm \in DOMAIN REPAYMENT_TERMS
        /\ t.totalRepaymentAmount # {}
        /\ \A total \in t.totalRepaymentAmount :
              WithinTolerance(total, t.approvedAmount,
                              GreatestTier(LOAN_TIERS, StoredScore).baseInterestRate,
                              REPAYMENT_TERMS[t.repaymentTerm])

\* The same for the approvals whose term is one of the five keys of the table.
SimpleInterestForEnumeratedTerms ==
    \A a \in Approvals : \A t \in a :
        t.repaymentTerm \in DOMAIN REPAYMENT_TERMS =>
            /\ t.totalRepaymentAmount # {}
            /\ \A total \in t.totalRepaymentAmount :
                  WithinTolerance(total, t.approvedAmount,
                                  GreatestTier(LOAN_TIERS, StoredScore).baseInterestRate,
                                  REPAYMENT_TERMS[t.repaymentTerm])

\* Scenario A: the shipped table, a profile with trustScore 250 and a
\* verification hash, one active loan of 40, a request for 100 that passed the
\* validation, and a velocity count under the limit of tier 1.
ScenarioA ==
    /\ op = "apply" /\ pc = "done" /\ LOAN_TIERS = DefaultTiers
    /\ req.loanAmount = [kind |-> "number", value |-> 100]
    /\ chain.profile = {[tigerScore |-> 250, humanVerifiedVcHash |-> TRUE]}
    /\ chain.loansRead = "ok"
    /\ chain.accounts = <<[kind |-> "loan", status |-> 0, outstandingAmount |-> 40000000]>>
    /\ \E n \in chain.recentApplications : n < 2

\* C17: in Scenario A (tier 1 with cap 150, verifiedIncome 325, debt 40)
\* ApplyForLoan with requestedAmount 100 is approved with approvedAmount = 97 =
\* min(150, 200, 97) and a reported DTI of 12.3 %.
C17_ScenarioAApproved97 ==
    ScenarioA =>
        /\ RejectionCodes = {}
        /\ Approvals # {}
        /\ \A a \in Approvals : \A t \in a :
              /\ t.approvedAmount = 97
              /\ t.requestedAmount = 100
              /\ t.tier = 1
              /\ t.tigerScore = 250
              /\ t.verifiedIncome = 325
              /\ t.outstandingDebt = 4000
              /\ t.currentDti = 123

\* Scenario A asked over 30 days and answered with its approval.
C17_Witness ==
    /\ ScenarioA /\ req.repaymentTerm = "30_days"
    /\ \E a \in Approvals : \E t \in a : t.approvedAmount = 97 /\ t.currentDti = 123

\* C18: as the README's example states, an application for 100 over 30_days by
\* a borrower with tigerScore 250, verifiedIncome 325 and outstandingDebt 40
\* returns approvedAmount 100, interestRate 10, totalRepaymentAmount 108.22 and
\* dailyPayment 3.61.
C18_ReadmeExampleFigures ==
    (ScenarioA /\ req.repaymentTerm = "30_days") =>
        /\ Approvals # {}
        /\ \A a \in Approvals : \A t \in a :
              /\ t.approvedAmount = 100
              /\ t.interestRate = 10
              /\ t.totalRepaymentAmount = {10822}
              /\ t.dailyPayment = {361}

\* What the handler returns for the README's request: 97 at 10 %, 97.80 to
\* repay, 3.26 a day.
ReadmeExampleAsComputed ==
    (ScenarioA /\ req.repaymentTerm = "30_days") =>
        \A a \in Approvals : \A t \in a :
            /\ t.approvedAmount = 97
            /\ t.interestRate = 10
            /\ t.interestAmount = {80}
            /\ t.totalRepaymentAmount = {9780}
            /\ t.dailyPayment = {326}

\* The request fails the input validation of section 4.5: wallet missing or
\* malformed, amount not a positive number, or term not an enumerated one.
InvalidInput ==
    \/ req.walletAddress # "wallet"
    \/ req.loanAmount.kind # "number" \/ req.loanAmount.value <= 0
    \/ req.repaymentTerm \notin DOMAIN REPAYMENT_TERMS

ValidationCodes == {"MissingFields", "InvalidAmount", "InvalidTerm", "InvalidWallet"}

BusinessCodes ==
    {"ProfileNotFound", "InsufficientScore", "InsufficientIncome",
     "HighDebtToIncome", "VelocityExceeded", "AmountTooLow"}

\* C19: an ApplyForLoan request whose wallet is missing or malformed, whose
\* requestedAmount is not a positive number, or whose repaymentTermKey is not
\* one of the enumerated terms is rejected as InvalidInput, and no upstream
\* read (profile, outstanding loans) is issued for it.
C19_InvalidInputRejectedBeforeReads ==
    (op = "apply" /\ Evaluated("validate") /\ InvalidInput) =>
        /\ pc = "done"
        /\ RejectionCodes # {} /\ RejectionCodes \subseteq ValidationCodes
        /\ gates = <<"validate">>
        /\ chain.profileRead = "pending" /\ chain.loansRead = "pending"

\* The same for the requests whose term is not a key the lookup inherits.
InvalidInputRejectedWithoutInheritedKeys ==
    req.repaymentTerm \notin InheritedKeys => C19_InvalidInputRejectedBeforeReads

\* C20: the response class of ApplyForLoan is fixed by the outcome: the six
\* business rejections are always a successful-but-declined response (200,
\* success false), InvalidInput is always a client error (4xx), and only an
\* upstream or internal failure yields a server error (5xx).
C20_ResponseClassFixedByOutcome ==
    op = "apply" =>
        \A i \in 1..Len(res) :
            /\ \A r \in res[i].rejectionReason :
                  /\ r.code \in BusinessCodes \cup ValidationCodes
                  /\ r.code \in BusinessCodes => res[i].status = 200 /\ ~res[i].success
                  /\ r.code \in ValidationCodes =>
                        400 <= res[i].status /\ res[i].status <= 499
            /\ res[i].proposedTerms # {} => res[i].status = 200
            /\ res[i].status >= 500 => (ProfileReadFailed \/ LoansReadFailed)

\* A declined application: the DTI rejection, sent with status 200.
C20_Witness ==
    /\ op = "apply" /\ pc = "done"
    /\ \E i \in 1..Len(res) :
          /\ res[i].status = 200 /\ ~res[i].success
          /\ \E r \in res[i].rejectionReason : r.code = "HighDebtToIncome"

\* An invalid term, sent with status 400.
C20_WitnessClientError ==
    /\ op = "apply" /\ pc = "done"
    /\ \E i \in 1..Len(res) :
          /\ res[i].status = 400
          /\ \E r \in res[i].rejectionReason : r.code = "InvalidTerm"

\* C21: when a system fault occurs in a core operation (ComputeScore via
\* /risk/recalculate, ApplyForLoan, CheckEligibility) the response returned is
\* generic: it has no field derived from the upstream error, such as its
\* message.
C21_FaultResponseIsGeneric ==
    op = "recalculate" =>
        \A i \in 1..Len(res) : res[i].status >= 500 => res[i].detail = {}

\* One of the three reads of buildFeatures was rejected.
ReadRejected ==
    \/ chain.txRead = "error"
    \/ chain.tokenRead = "error"
    \/ chain.activityRead = "error"

\* C22: in the Feature Aggregator, if any one of the three chain reads
\* (transaction stats, token holdings, 30-day activity) fails, the whole
\* aggregation fails: no feature record, partial or defaulted, is passed to the
\* score engine, and the request returns no score.
C22_FailedReadAbortsAggregation ==
    (op = "recalculate" /\ ReadRejected) =>
        /\ pc = "done"
        /\ f = NoFeatures /\ score = {} /\ tierLabel = {}
        /\ Len(res) = 1 /\ res[1].status = 500 /\ res[1].report = {}
        /\ chain.txRead = "error" =>
              (chain.tokenRead = "pending" /\ chain.activityRead = "pending")
        /\ chain.tokenRead = "error" => chain.activityRead = "pending"

\* The second of the three reads rejected after the first had succeeded.
C22_Witness ==
    /\ op = "recalculate" /\ pc = "done"
    /\ chain.txRead = "ok" /\ loc.stats # {}
    /\ chain.tokenRead = "error"
    /\ score = {}

\* C23: for any list of signature timestamps and any current time, the
\* activeDaysLast30 the activity-regularity computation produces (the distinct
\* UTC dates among the signatures no older than 30 x 24 hours) is an integer in
\* [0, 30].
C23_ActiveDaysWithinThirty ==
    op = "recalculate" =>
        \A r \in loc.regularity : 0 <= r.activeDaysLast30 /\ r.activeDaysLast30 <= 30

\* The score reports among the responses sent so far.
ScoreReports == UNION {res[i].report : i \in 1..Len(res)}

\* C24: for every monthlyIncome >= 0, deriveStripeIncomeFeatures assigns
\* incomeBracket low below 2000, mid from 2000 to 5000 and high above 5000, and
\* sets incomeVerified true if and only if monthlyIncome > 0.
C24_IncomeBracketAndVerified ==
    op = "recalculate" =>
        \A r \in ScoreReports :
            /\ r.features_used.incomeBracket =
                  CASE req.monthlyIncome < 2000 -> "low"
                    [] req.monthlyIncome >= 2000 /\ req.monthlyIncome <= 5000 -> "mid"
                    [] req.monthlyIncome > 5000 -> "high"
            /\ r.features_used.incomeVerified <=> req.monthlyIncome > 0

\* The brackets as the code draws them: mid starts above 2000.
IncomeBracketAboveThresholds ==
    op = "recalculate" =>
        \A r \in ScoreReports :
            /\ r.features_used.incomeBracket =
                  CASE req.monthlyIncome <= 2000 -> "low"
                    [] req.monthlyIncome > 2000 /\ req.monthlyIncome <= 5000 -> "mid"
                    [] req.monthlyIncome > 5000 -> "high"
            /\ r.features_used.incomeVerified <=> req.monthlyIncome > 0

\* The status of each response with the score and the label it reports.
ScoreAndTier(responses) ==
    {<<responses[i].status, {<<r.score, r.tier>> : r \in responses[i].report}>> :
        i \in 1..Len(responses)}

\* C29: the score and the tier label /risk/recalculate returns do not depend
\* on the caller's monthlyIncome and debt: two requests for the same wallet on
\* identical chain data with different monthlyIncome and debt return the same
\* score and the same label; only features_used differs.
C29_ScoreIgnoresIncomeAndDebt ==
    (op = "recalculate" /\ prev # <<>> /\ pc = "done") =>
        ScoreAndTier(res) = ScoreAndTier(prev)

\* Two score reports for one wallet, the second for an income in the high
\* bracket, with different features_used.
C29_Witness ==
    /\ op = "recalculate" /\ prev # <<>> /\ pc = "done"
    /\ req.monthlyIncome = 5001
    /\ \E r \in ScoreReports : \E i \in 1..Len(prev) : \E q \in prev[i].report :
          /\ r.features_used # q.features_used
          /\ r.features_used.incomeBracket = "high"
          /\ r.score = q.score

\* The balances, in base units, of the loans among the accounts that are
\* neither repaid (1) nor defaulted (2).
RECURSIVE ActiveBalance(_)
ActiveBalance(accounts) ==
    IF accounts = <<>> THEN 0
    ELSE (IF Head(accounts).kind = "loan" /\ Head(accounts).status \notin {1, 2}
          THEN Head(accounts).outstandingAmount ELSE 0)
         + ActiveBalance(Tail(accounts))

ApprovedFor(tiers, s, hash, amount) ==
    LET profile == [tigerScore |-> s, humanVerifiedVcHash |-> hash]
        income == getVerifiedIncome(profile)
    IN  IF ApplyTier(tiers, s) = {} \/ income < MIN_REQUIRED_INCOME_PROOF THEN {}
        ELSE LET tier == CHOOSE t \in ApplyTier(tiers, s) : TRUE
                 maxApproved == MaxApprovedLoanAmount(tier, s, income)
             IN  IF AmountRejected(amount, maxApproved) THEN {}
                 ELSE {[tier |-> tier.level, approvedAmount |-> Min2(amount, maxApproved)]}

\* C27: loan limits range from 50 (entry tier) to 1000 (elite tier): for each
\* tier of the default table there is a profile with trustScore in 0..1000 in
\* that tier and a request for which ApplyForLoan approves exactly that tier's
\* maxLoanLimit; in particular an approvedAmount of 1000 is reachable in tier 3.
C27_EveryTierLimitIsApprovable ==
    LOAN_TIERS = DefaultTiers =>
        \A i \in 1..Len(LOAN_TIERS) :
            \E s \in 0..1000 : \E hash \in BOOLEAN :
                [tier |-> LOAN_TIERS[i].level,
                 approvedAmount |-> LOAN_TIERS[i].maxLoanLimit]
                    \in ApprovedFor(LOAN_TIERS, s, hash, LOAN_TIERS[i].maxLoanLimit)

\* What is approved for scores up to 1000: never more than 210, and above the
\* entry tier always less than the tier's limit.
ApprovalsStayBelowTierLimits ==
    (op = "apply" /\ LOAN_TIERS = DefaultTiers /\ chain.profile # {}) =>
        \A a \in Approvals : \A t \in a :
            StoredScore <= 1000 =>
                /\ t.approvedAmount <= 210
                /\ t.tier >= 1 => t.approvedAmount < DefaultTiers[t.tier + 1].maxLoanLimit

\* C30: every approval ApplyForLoan emits has approvedAmount > 0, for every
\* score, verified income, debt and positive requested amount; a borrower
\* whose maxEligibleAmount is 0 is never approved.
C30_ApprovedAmountPositive ==
    op = "apply" =>
        /\ \A a \in Approvals : \A t \in a : t.approvedAmount > 0
        /\ (Evaluated("amount") /\ StoredMaxEligible = 0) =>
              (Approvals = {} /\ RejectionCodes = {"AmountTooLow"})

\* A score of 0 with a verification hash: maxEligibleAmount 0, a positive
\* amount asked for, rejected at amount resolution.
C30_Witness ==
    /\ op = "apply" /\ pc = "done" /\ Evaluated("amount")
    /\ StoredScore = 0 /\ StoredMaxEligible = 0
    /\ req.loanAmount.value > 0
    /\ RejectionCodes = {"AmountTooLow"}

\* The steps whose check succeeded, in the order they did.
RECURSIVE Succeeded(_)
Succeeded(log) ==
    IF log = <<>> THEN <<>>
    ELSE IF log[Len(log)].ok
    THEN Append(Succeeded(SubSeq(log, 1, Len(log) - 1)), log[Len(log)].step)
    ELSE Succeeded(SubSeq(log, 1, Len(log) - 1))

\* A failed check leaves the step counter where it was and the button usable.
FailedCheckCanBeRetried ==
    /\ ui.step = Len(Succeeded(ui.log))
    /\ (ui.log # <<>> /\ ~ui.log[Len(ui.log)].ok /\ ui.inflight = {}) =>
          (~ui.loading /\ ui.error # "" /\ ui.route = "/module1/onboard")

\* C28: the onboarding flow navigates to the verification-success page only
\* after all four documented steps (welcome, profile creation, DID generation,
\* human liveness verification) have each completed successfully, in that
\* order; a step whose simulated check fails leaves the step counter unchanged
\* and can be retried.
C28_VerifiedAfterFourSteps ==
    op = "onboard" =>
        /\ ui.route = "/module1/verified" => Succeeded(ui.log) = <<0, 1, 2, 3>>
        /\ FailedCheckCanBeRetried

\* The flow as the page runs it: the success page after the third step.
VerifiedAfterThreeSteps ==
    op = "onboard" =>
        /\ ui.route = "/module1/verified" <=> Succeeded(ui.log) = <<0, 1, 2>>
        /\ FailedCheckCanBeRetried

\* The response POST /api/loan/apply gives to request r when it runs with no
\* other call in flight, the chain holding ch for its wallet.
AloneApply(tiers, r, ch) ==
    LET invalid == ValidationFailure(r)
        userProfile == UNION {getUserProfile(ch.profileRead, p) : p \in ch.profile}
    IN  IF invalid # {} THEN {Rejection(400, c, <<>>) : c \in invalid}
        ELSE IF userProfile = {} THEN {Rejection(200, "ProfileNotFound", <<>>)}
        ELSE
        LET profile == CHOOSE p \in userProfile : TRUE
            appropriateTier == ApplyTier(tiers, profile.tigerScore)
        IN  IF appropriateTier = {}
            THEN {Rejection(200, "InsufficientScore",
                      <<profile.tigerScore, tiers[1].minTigerScore>>)}
            ELSE
            LET tier == CHOOSE t \in appropriateTier : TRUE
                income == getVerifiedIncome(profile)
                debt == SumAmounts(getOutstandingLoans(ch.loansRead, ch.accounts))
                maxApproved == MaxApprovedLoanAmount(tier, profile.tigerScore, income)
            IN  IF income < MIN_REQUIRED_INCOME_PROOF
                THEN {Rejection(200, "InsufficientIncome",
                          <<income, MIN_REQUIRED_INCOME_PROOF>>)}
                ELSE IF DtiExceeds(debt, income, tier.maxDtiRatio)
                THEN {Rejection(200, "HighDebtToIncome",
                          <<DtiTenths(debt, income), tier.maxDtiRatio * 10>>)}
                ELSE
                { IF recentApplications >= tier.loanApplicationVelocityLimit
                  THEN Rejection(200, "VelocityExceeded", <<recentApplications>>)
                  ELSE IF AmountRejected(r.loanAmount.value, maxApproved)
                  THEN Rejection(200, "AmountTooLow", <<r.loanAmount.value, maxApproved>>)
                  ELSE Approval(ProposedTerms(r.loanAmount.value, r.repaymentTerm, tier,
                                    profile, income, debt, maxApproved)) :
                  recentApplications \in ch.recentApplications }

\* The same for GET /api/loan/eligibility/:walletAddress.
AloneEligibility(tiers, r, ch) ==
    LET userProfile == UNION {getUserProfile(ch.profileRead, p) : p \in ch.profile}
    IN  IF r.walletAddress # "wallet" THEN {Rejection(400, "InvalidWallet", <<>>)}
        ELSE IF userProfile = {} THEN {Rejection(200, "ProfileNotFound", <<>>)}
        ELSE
        LET profile == CHOOSE p \in userProfile : TRUE
        IN  {EligibilityReport(Eligibility(profile,
                 EligibilityTier(tiers, profile.tigerScore),
                 getVerifiedIncome(profile),
                 SumAmounts(getOutstandingLoans(ch.loansRead, ch.accounts))))}

\* The same for POST /risk/recalculate.
AloneRecalculate(r, ch) ==
    IF r.wallet = "" THEN {WalletRequired}
    ELSE IF Rejected(ch.txRead) \/ Rejected(ch.tokenRead) \/ Rejected(ch.activityRead)
    THEN {ReadFailure(ErrorMessage(r.wallet))}
    ELSE
    { LET features == Spread(buildFeatures(stats, assets,
                                 getActivityRegularity(ch.sigs, ch.now)),
                             deriveStripeIncomeFeatures(r.monthlyIncome, r.debt))
          s == computeTigerScore(features)
      IN  ScoreReport(r.wallet, s, getTier(s), features) :
      stats \in ch.txStats, assets \in ch.tokenStats }

Alone(tiers, call) ==
    CASE call.op = "apply" -> AloneApply(tiers, call.req, call.chain)
      [] call.op = "eligibility" -> AloneEligibility(tiers, call.req, call.chain)
      [] call.op = "recalculate" -> AloneRecalculate(call.req, call.chain)

\* A call that has ended has sent exactly the response it sends alone.
RespondedAsAlone(call) ==
    call.pc = "done" =>
        Len(call.res) = 1 /\ call.res[1] \in Alone(LOAN_TIERS, call)

\* C26: with two calls in flight and any interleaving of their steps, each
\* call's response is the one it gives when it runs alone on the same
\* upstream data, and a call that has not ended can always take its next
\* step, whatever the other call is doing.
C26_ConcurrentRequestsIndependent ==
    /\ RespondedAsAlone(Context)
    /\ other.op # "none" => RespondedAsAlone(other)
    /\ pc # "done" => ENABLED HandlerStep
    /\ (other.op # "none" /\ other.pc # "done") => ENABLED ResumeOther

\* An application has been approved while an eligibility check for another
\* wallet, with another profile, stays suspended at its second await.
C26_Witness ==
    /\ op = "apply" /\ pc = "done" /\ Len(res) = 1 /\ res[1].proposedTerms # {}
    /\ other.op = "eligibility" /\ other.pc = "report"
    /\ other.loc.userProfile # {}
    /\ other.loc.userProfile # loc.userProfile
    /\ other.chain # chain

====
